---- MODULE Spec2Model ----
(***************************************************************************)
(* bashbuddy (bsh): the interactive session controller of src/main.rs,     *)
(* its Command Store and the scripted CLI path.                            *)
(*                                                                         *)
(* Strings are sequences of one-character strings, so that splitting a     *)
(* buffer on its first space and trimming are computed, not assumed.       *)
(* The persisted file is modelled by the store value its JSON denotes.     *)
(* Rust's Option<usize> is an integer, with None == -1; indices are the    *)
(* code's 0-based indices (a Vec v[i] is the sequence element v[i + 1]).   *)
(***************************************************************************)
EXTENDS Integers, Sequences, FiniteSets, TLC

VARIABLES
    pc,                 \* "main" | "loop" | "scan" | "done" | "panicked"
    terminal,           \* "cooked" | "raw" | "released"
    effects,            \* what the process did to the terminal and the engine, in order
    file,               \* the persisted store
    config,             \* Config.categories, the in-memory store
    categories,         \* AppState.categories
    commands,           \* AppState.commands
    selected_category,  \* AppState.selected_category
    selected_command,   \* AppState.selected_command
    selected_button,    \* AppState.selected_button
    mode,               \* AppState.mode
    input_mode,         \* AppState.input_mode
    input,              \* AppState.input
    category_state,     \* category_state.selected()
    command_state,      \* command_state.selected()
    downs,              \* Down presses read so far, while no other key was read
    inserts,            \* insertions into the store made by the session so far
    keyboard,           \* the characters the user types while text is captured
    final_command       \* final_command of run_command_from_config

vars == <<pc, terminal, effects, file, config, categories, commands,
          selected_category, selected_command, selected_button, mode,
          input_mode, input, category_state, command_state, downs, inserts,
          keyboard, final_command>>

----------------------------------------------------------------------------
(* Bounds of the model *)

MaxInput == 2     \* longest input buffer typed
MaxInserts == 1   \* most insertions into the store followed in one session
MaxDowns == 3     \* Down presses counted from the start of a session
MaxLine == 1      \* longest line entered at a placeholder prompt
MaxPieces == 3    \* most pieces a stored text of the run specification is made of

----------------------------------------------------------------------------
(* Values *)

None == -1

Some(i) == i

EmptyMap == [x \in {} |-> <<>>]

Put(f, k, v) == [x \in DOMAIN f \cup {k} |-> IF x = k THEN v ELSE f[x]]

\* Mutant: the key is left in the map
Del_kept(f, k) == f

Del(f, k) == [x \in DOMAIN f \ {k} |-> f[x]]

\* Mutant: the element is left in the list
RemoveAt_kept(s, i) == s

\* Vec::remove(i), 0-based
RemoveAt(s, i) == [j \in 1..(Len(s) - 1) |-> IF j <= i THEN s[j] ELSE s[j + 1]]

\* Mutant: the first character is removed
Pop_first(s) == IF s = <<>> THEN s ELSE Tail(s)

\* String::pop
Pop(s) == IF s = <<>> THEN s ELSE SubSeq(s, 1, Len(s) - 1)

\* U+00A0, a character of char::is_whitespace other than ' '
Nbsp == "nbsp"

\* char::is_whitespace, as str::trim applies it
Whitespace == {" ", Nbsp}

Chars == {"d", " ", Nbsp}

Keys == {"Esc", "Up", "Down", "Left", "Right", "Enter", "Backspace"} \cup Chars

NameA == <<"a">>
NameB == <<" ">>
AliasX == <<"x">>
AliasY == <<>>
TextD == <<"d">>

\* The placeholder markers (lines 1115-1116)
Open == <<"<", "[">>

Close == <<"]", ">">>

\* A stored text that is one placeholder token
TextToken == Open \o <<"x">> \o Close

\* Contents of the persisted file when the process starts
InitStores ==
    { EmptyMap,
      Put(EmptyMap, NameA, EmptyMap),
      Put(Put(EmptyMap, NameA, EmptyMap), NameB, EmptyMap),
      Put(EmptyMap, NameA, Put(Put(EmptyMap, AliasX, TextD), AliasY, <<>>)),
      Put(EmptyMap, NameA, Put(EmptyMap, AliasX, TextToken)) }

\* Arguments of the scripted CLI
CliCategories == {NameA, NameB}
CliAliases == {AliasX, AliasY}
CliTexts == {TextD, <<" ">>}

Perms(S) ==
    {s \in [1..Cardinality(S) -> S] : \A i, j \in DOMAIN s : s[i] = s[j] => i = j}

Pairs(m) == {<<a, m[a]>> : a \in DOMAIN m}

\* The snapshots a HashMap's iteration order can produce (lines 243-250)
SnapshotsOf(cfg) ==
    {f \in [DOMAIN cfg -> UNION {Perms(Pairs(cfg[c])) : c \in DOMAIN cfg}] :
        \A c \in DOMAIN cfg : f[c] \in Perms(Pairs(cfg[c]))}

----------------------------------------------------------------------------
(* Command Store.  A store operation works on st = [config, file, panicked]; *)
(* wok says whether fs::write succeeds during the operation.                *)

Store(cfg, f) == [config |-> cfg, file |-> f, panicked |-> FALSE]

\* Mutant: nothing is written
update_config_file_skipped(st, wok) == st

update_config_file(st, wok) ==
    IF st.panicked THEN st
    ELSE IF wok THEN [st EXCEPT !.file = st.config]
    ELSE [st EXCEPT !.panicked = TRUE]

check_if_category_exists(category, cfg) == category \in DOMAIN cfg

\* config.categories.get(category).unwrap(): callers establish the category
check_if_command_exists(category, alias, cfg) == alias \in DOMAIN cfg[category]

\* ... and the unwrap() of line 1060 fails when the category is missing
check_if_command_exists_unwrap_fails(category, cfg) == category \notin DOMAIN cfg

\* Mutant: the category is inserted, and the file written, even when it exists
add_category_to_config_overwrite(category, st, wok) ==
    IF st.panicked THEN st
    ELSE update_config_file([st EXCEPT !.config = Put(st.config, category, EmptyMap)], wok)

add_category_to_config(category, st, wok) ==
    IF st.panicked THEN st
    ELSE IF category \notin DOMAIN st.config
    THEN update_config_file([st EXCEPT !.config = Put(st.config, category, EmptyMap)], wok)
    ELSE st

remove_category_from_config(category, st, wok) ==
    IF st.panicked THEN st
    ELSE IF category \in DOMAIN st.config
    THEN update_config_file([st EXCEPT !.config = Del(st.config, category)], wok)
    ELSE st

add_command_to_config(category, command, alias, st, wok) ==
    IF st.panicked THEN st
    ELSE LET c1 == IF category \notin DOMAIN st.config
                   THEN Put(st.config, category, EmptyMap)
                   ELSE st.config
             c2 == Put(c1, category, Put(c1[category], alias, command))
         IN update_config_file([st EXCEPT !.config = c2], wok)

\* Mutant: an existing alias keeps its text
update_command_in_config_skipped(category, command, alias, st, wok) == st

update_command_in_config(category, command, alias, st, wok) ==
    IF st.panicked THEN st
    ELSE update_config_file(
            [st EXCEPT !.config =
                Put(st.config, category, Put(st.config[category], alias, command))],
            wok)

remove_command_from_config(category, alias, st, wok) ==
    IF st.panicked THEN st
    ELSE IF category \in DOMAIN st.config /\ alias \in DOMAIN st.config[category]
    THEN update_config_file(
            [st EXCEPT !.config = Put(st.config, category, Del(st.config[category], alias))],
            wok)
    ELSE st

\* Mutant: an alias that exists is overwritten
add_command_overwrites(category, command, alias, st, wok) ==
    LET s1 == IF ~check_if_category_exists(category, st.config)
              THEN add_category_to_config(category, st, wok)
              ELSE st
    IN add_command_to_config(category, command, alias, s1, wok)

add_command(category, command, alias, st, wok) ==
    LET s1 == IF ~check_if_category_exists(category, st.config)
              THEN add_category_to_config(category, st, wok)
              ELSE st
    IN IF s1.panicked THEN s1
       ELSE IF check_if_command_exists(category, alias, s1.config)
       THEN s1
       ELSE add_command_to_config(category, command, alias, s1, wok)

update_command(category, command, alias, st, wok) ==
    LET s1 == IF ~check_if_category_exists(category, st.config)
              THEN add_category_to_config(category, st, wok)
              ELSE st
    IN IF s1.panicked THEN s1
       ELSE IF check_if_command_exists(category, alias, s1.config)
       THEN update_command_in_config(category, command, alias, s1, wok)
       ELSE add_command_to_config(category, command, alias, s1, wok)

----------------------------------------------------------------------------
(* Execution Engine *)

\* Mutant: only the empty text is rejected
TrimIsEmpty_strict(s) == s = <<>>

\* str::trim().is_empty()
TrimIsEmpty(s) == \A i \in DOMAIN s : s[i] \in Whitespace

\* Mutant: surrounding whitespace is kept
trim_none(s) == s

\* str::trim
trim(s) ==
    LET keep == {i \in DOMAIN s : s[i] \notin Whitespace}
    IN IF keep = {} THEN <<>>
       ELSE SubSeq(s, CHOOSE i \in keep : \A j \in keep : i <= j,
                      CHOOSE i \in keep : \A j \in keep : i >= j)

\* str::find(pat): the 0-based index of the first occurrence of pat in s
find(s, pat) ==
    LET hits == {i \in 0..(Len(s) - Len(pat)) : SubSeq(s, i + 1, i + Len(pat)) = pat}
    IN IF hits = {} THEN None ELSE Some(CHOOSE i \in hits : \A j \in hits : i <= j)

\* Mutant: the token's opening angle bracket is left in the text
replacen_opened(s, pat, to) ==
    LET i == find(s, pat)
    IN IF i = None THEN s
       ELSE SubSeq(s, 1, i + 1) \o to \o SubSeq(s, i + Len(pat) + 1, Len(s))

\* Mutant: the last occurrence is replaced
replacen_last(s, pat, to) ==
    LET hits == {i \in 0..(Len(s) - Len(pat)) : SubSeq(s, i + 1, i + Len(pat)) = pat}
        i == CHOOSE h \in hits : \A j \in hits : h >= j
    IN IF hits = {} THEN s
       ELSE SubSeq(s, 1, i) \o to \o SubSeq(s, i + Len(pat) + 1, Len(s))

\* str::replacen(pat, to, 1)
replacen_1(s, pat, to) ==
    LET i == find(s, pat)
    IN IF i = None THEN s
       ELSE SubSeq(s, 1, i) \o to \o SubSeq(s, i + Len(pat) + 1, Len(s))

\* final_command[start + 2..start + end], for start and end as the loop finds them
placeholder_of(fc) ==
    LET start == find(fc, Open)
        end == find(SubSeq(fc, start + 1, Len(fc)), Close)
    IN SubSeq(fc, start + 3, start + end)

\* Mutant: a marker left open does not stop the run
scan_unmatched_spawns(category, alias, fc) ==
    LET start == find(fc, Open)
    IN IF start /= None /\ find(SubSeq(fc, start + 1, Len(fc)), Close) /= None
       THEN <<"prompt", category, alias, placeholder_of(fc)>>
       ELSE <<"spawn", category, alias, fc>>

\* One test of the loop condition (line 1115) and of the inner if (line 1116):
\* the engine spawns the shell on fc, reports the mismatch, or prompts
scan(category, alias, fc) ==
    LET start == find(fc, Open)
    IN IF start = None
       THEN <<"spawn", category, alias, fc>>
       ELSE IF find(SubSeq(fc, start + 1, Len(fc)), Close) = None
       THEN <<"mismatched", category, alias, fc>>
       ELSE <<"prompt", category, alias, placeholder_of(fc)>>

\* The outcome of run_command_from_config up to its first read of a line
run_command_from_config(category, alias, cfg) ==
    IF ~(category \in DOMAIN cfg /\ alias \in DOMAIN cfg[category])
    THEN <<"not_found", category, alias>>
    ELSE IF TrimIsEmpty(cfg[category][alias])
    THEN <<"empty", category, alias>>
    ELSE scan(category, alias, cfg[category][alias])

run_command(category, alias, cfg) ==
    IF ~check_if_category_exists(category, cfg)
    THEN <<"no_category", category, alias>>
    ELSE IF ~check_if_command_exists(category, alias, cfg)
    THEN <<"no_command", category, alias>>
    ELSE run_command_from_config(category, alias, cfg)

----------------------------------------------------------------------------
(* Session: helpers of the dispatcher *)

NotCounted == MaxDowns + 1

\* usize::checked_sub(1)
checked_sub_1(n) == IF n = 0 THEN None ELSE Some(n - 1)

\* Mutant: the selection is not re-clamped
new_selection_unclamped(selected, len) == Some(selected)

\* Selection after categories.remove(selected); len is the new length
new_selection(selected, len) ==
    IF selected >= len THEN checked_sub_1(len) ELSE Some(selected)

\* Mutant: off by one, the last item is never selected by Down
category_down_moves_early(selected, len) == selected + 1 < len - 1

\* Down at Category with a selection: does the selection move?
category_down_moves(selected, len) == selected < len - 1

\* Down at Command with a selection: is a new command to be added?
command_down_adds(selected, commands_len) ==
    commands_len = 0 \/ selected >= commands_len - 1

\* Mutant: the emptiness test is missing
category_descends_always(cats) == TRUE

\* Enter | Right at Category: does the session descend?
category_descends(cats) == cats /= <<>>

\* Mutant: the buffer is split at its last ' '
FirstSpace_last(s) ==
    IF \E i \in DOMAIN s : s[i] = " "
    THEN CHOOSE i \in DOMAIN s : s[i] = " " /\ \A j \in (i + 1)..Len(s) : s[j] /= " "
    ELSE 0

\* Position of the first ' ' of s, 0 when there is none (str::splitn(2, ' '))
FirstSpace(s) ==
    IF \E i \in DOMAIN s : s[i] = " "
    THEN CHOOSE i \in DOMAIN s : s[i] = " " /\ \A j \in 1..(i - 1) : s[j] /= " "
    ELSE 0

splitn_2(s) ==
    LET p == FirstSpace(s)
    IN IF p = 0 THEN <<s>> ELSE <<SubSeq(s, 1, p - 1), SubSeq(s, p + 1, Len(s))>>

\* app_state.categories[selected_category.unwrap()] and
\* app_state.commands.get(category).unwrap() evaluate without a panic
CategoryIndexOk ==
    /\ selected_category /= None
    /\ selected_category < Len(categories)
    /\ categories[selected_category + 1] \in DOMAIN commands

SelectedCategoryName == categories[selected_category + 1]

\* ... and so does [selected_command] on that category's list
CommandIndexOk ==
    /\ CategoryIndexOk
    /\ selected_command /= None
    /\ selected_command < Len(commands[SelectedCategoryName])

\* event::read() returns key k (line 682)
Read(k) ==
    /\ pc = "loop"
    /\ downs' = IF k = "Down" /\ downs < MaxDowns THEN downs + 1 ELSE NotCounted
    /\ UNCHANGED <<keyboard, final_command>>

appVars == <<categories, commands, selected_category, selected_command,
             selected_button, mode, input_mode, input, category_state,
             command_state>>

\* A panic inside the loop: the process dies where it is
Panic ==
    /\ pc' = "panicked"
    /\ UNCHANGED <<terminal, effects, file, config, appVars, inserts>>

\* Mutant: the loop is left without restoring the terminal
LeaveTui_raw ==
    /\ pc' = "done"
    /\ UNCHANGED <<terminal, effects, file, config, appVars, inserts>>

\* disable_raw_mode, LeaveAlternateScreen, show_cursor, break
LeaveTui ==
    /\ terminal' = "released"
    /\ effects' = Append(effects, <<"release">>)
    /\ pc' = "done"
    /\ UNCHANGED <<file, config, appVars, inserts>>

Stay == UNCHANGED <<pc, terminal, effects, inserts>>

\* One more HashMap::insert into the store
Insert == inserts < MaxInserts /\ inserts' = inserts + 1

----------------------------------------------------------------------------
(* Process start *)

Init ==
    /\ pc = "main"
    /\ terminal = "cooked"
    /\ effects = <<>>
    /\ file \in InitStores
    /\ config = EmptyMap
    /\ categories = <<>>
    /\ commands = EmptyMap
    /\ selected_category = None
    /\ selected_command = None
    /\ selected_button = None
    /\ mode = "Category"
    /\ input_mode = "Normal"
    /\ input = <<>>
    /\ category_state = None
    /\ command_state = None
    /\ downs = 0
    /\ inserts = 0
    /\ keyboard = {"d", " "}
    /\ final_command = <<>>

\* start_tui up to the loop: the terminal is acquired, then the store is read
start_tui ==
    /\ pc = "main"
    /\ terminal' = "raw"
    /\ effects' = Append(effects, <<"raw">>)
    /\ \E rok \in BOOLEAN :
        IF rok
        THEN /\ pc' = "loop"
             /\ config' = file
             /\ categories' \in Perms(DOMAIN file)
             /\ commands' \in SnapshotsOf(file)
             /\ category_state' = Some(0)
             /\ selected_category' = Some(0)
             /\ UNCHANGED <<file, selected_command, selected_button, mode,
                            input_mode, input, command_state, downs, inserts>>
        ELSE /\ pc' = "panicked"
             /\ UNCHANGED <<file, config, appVars, downs, inserts>>
    /\ UNCHANGED <<keyboard, final_command>>

----------------------------------------------------------------------------
(* InputMode::Normal, Mode::Category (lines 685-742) *)

category_esc ==
    /\ Read("Esc") /\ input_mode = "Normal" /\ mode = "Category"
    /\ LeaveTui

category_up ==
    /\ Read("Up") /\ input_mode = "Normal" /\ mode = "Category"
    /\ IF category_state /= None /\ category_state > 0
       THEN /\ category_state' = Some(category_state - 1)
            /\ selected_category' = Some(category_state - 1)
       ELSE UNCHANGED <<category_state, selected_category>>
    /\ Stay
    /\ UNCHANGED <<file, config, categories, commands, selected_command,
                   selected_button, mode, input_mode, input, command_state>>

category_down ==
    /\ Read("Down") /\ input_mode = "Normal" /\ mode = "Category"
    /\ IF categories = <<>>
       THEN /\ input_mode' = "Adding"
            /\ input' = <<>>
            /\ UNCHANGED <<category_state, selected_category>>
       ELSE IF category_state /= None
       THEN IF category_down_moves(category_state, Len(categories))
            THEN /\ category_state' = Some(category_state + 1)
                 /\ selected_category' = Some(category_state + 1)
                 /\ UNCHANGED <<input_mode, input>>
            ELSE /\ input_mode' = "Adding"
                 /\ input' = <<>>
                 /\ UNCHANGED <<category_state, selected_category>>
       ELSE UNCHANGED <<category_state, selected_category, input_mode, input>>
    /\ Stay
    /\ UNCHANGED <<file, config, categories, commands, selected_command,
                   selected_button, mode, command_state>>

category_enter_right ==
    /\ \E k \in {"Enter", "Right"} : Read(k)
    /\ input_mode = "Normal" /\ mode = "Category"
    /\ IF category_descends(categories)
       THEN /\ mode' = "Command"
            /\ command_state' = Some(0)
            /\ selected_command' = Some(0)
       ELSE UNCHANGED <<mode, command_state, selected_command>>
    /\ Stay
    /\ UNCHANGED <<file, config, categories, commands, selected_category,
                   selected_button, input_mode, input, category_state>>

category_d ==
    /\ Read("d") /\ input_mode = "Normal" /\ mode = "Category"
    /\ IF category_state = None
       THEN Stay /\ UNCHANGED <<file, config, appVars>>
       ELSE IF category_state >= Len(categories)
       THEN Panic
       ELSE \E wok \in BOOLEAN :
            LET selected == category_state
                category_to_delete == categories[selected + 1]
                s1 == remove_category_from_config(category_to_delete,
                                                  Store(config, file), wok)
                cats == RemoveAt(categories, selected)
                sel == new_selection(selected, Len(cats))
                s2 == update_config_file(s1, wok)
            IN /\ UNCHANGED inserts
               /\ config' = s2.config
               /\ file' = s2.file
               /\ pc' = IF s2.panicked THEN "panicked" ELSE pc
               /\ IF s1.panicked
                  THEN UNCHANGED <<categories, commands, category_state,
                                   selected_category>>
                  ELSE /\ categories' = cats
                       /\ commands' = Del(commands, category_to_delete)
                       /\ category_state' = sel
                       /\ selected_category' = sel
               /\ UNCHANGED <<terminal, effects, selected_command, selected_button,
                              mode, input_mode, input, command_state>>

----------------------------------------------------------------------------
(* InputMode::Normal, Mode::Command (lines 743-813) *)

command_esc ==
    /\ Read("Esc") /\ input_mode = "Normal" /\ mode = "Command"
    /\ LeaveTui

command_up ==
    /\ Read("Up") /\ input_mode = "Normal" /\ mode = "Command"
    /\ IF command_state /= None /\ command_state > 0
       THEN /\ command_state' = Some(command_state - 1)
            /\ selected_command' = Some(command_state - 1)
       ELSE UNCHANGED <<command_state, selected_command>>
    /\ Stay
    /\ UNCHANGED <<file, config, categories, commands, selected_category,
                   selected_button, mode, input_mode, input, category_state>>

command_down ==
    /\ Read("Down") /\ input_mode = "Normal" /\ mode = "Command"
    /\ IF command_state = None
       THEN Stay /\ UNCHANGED <<file, config, appVars>>
       ELSE IF selected_category = None \/ selected_category >= Len(categories)
       THEN Panic
       ELSE /\ IF SelectedCategoryName \in DOMAIN commands
               THEN IF command_down_adds(command_state,
                                         Len(commands[SelectedCategoryName]))
                    THEN /\ input_mode' = "Adding"
                         /\ input' = <<>>
                         /\ UNCHANGED <<command_state, selected_command>>
                    ELSE /\ command_state' = Some(command_state + 1)
                         /\ selected_command' = Some(command_state + 1)
                         /\ UNCHANGED <<input_mode, input>>
               ELSE UNCHANGED <<command_state, selected_command, input_mode, input>>
            /\ Stay
            /\ UNCHANGED <<file, config, categories, commands, selected_category,
                           selected_button, mode, category_state>>

command_left ==
    /\ Read("Left") /\ input_mode = "Normal" /\ mode = "Command"
    /\ mode' = "Category"
    /\ selected_command' = None
    /\ Stay
    /\ UNCHANGED <<file, config, categories, commands, selected_category,
                   selected_button, input_mode, input, category_state,
                   command_state>>

\* Mutant: Right descends to the buttons of an empty command list too
command_right_any ==
    /\ Read("Right") /\ input_mode = "Normal" /\ mode = "Command"
    /\ IF selected_category = None
       THEN Stay /\ UNCHANGED <<file, config, appVars>>
       ELSE IF selected_category >= Len(categories)
       THEN Panic
       ELSE /\ IF SelectedCategoryName \in DOMAIN commands
               THEN /\ mode' = "Buttons"
                    /\ selected_button' = Some(0)
               ELSE UNCHANGED <<mode, selected_button>>
            /\ Stay
            /\ UNCHANGED <<file, config, categories, commands, selected_category,
                           selected_command, input_mode, input, category_state,
                           command_state>>

command_right ==
    /\ Read("Right") /\ input_mode = "Normal" /\ mode = "Command"
    /\ IF selected_category = None
       THEN Stay /\ UNCHANGED <<file, config, appVars>>
       ELSE IF selected_category >= Len(categories)
       THEN Panic
       ELSE /\ IF /\ SelectedCategoryName \in DOMAIN commands
                  /\ commands[SelectedCategoryName] /= <<>>
               THEN /\ mode' = "Buttons"
                    /\ selected_button' = Some(0)
               ELSE UNCHANGED <<mode, selected_button>>
            /\ Stay
            /\ UNCHANGED <<file, config, categories, commands, selected_category,
                           selected_command, input_mode, input, category_state,
                           command_state>>

\* Mutant: the engine is called while the terminal is still raw
run_effects_late(log, run) == Append(log \o run, <<"release">>)

\* The log after Enter at Command: the terminal is released (lines 792-794)
\* before the engine is called (lines 796-809); run is <<>> or one outcome
run_effects(log, run) == Append(log, <<"release">>) \o run

\* commands[selected_command] is evaluated and is out of range (line 804)
EnterPanics ==
    /\ selected_category /= None
    /\ \/ selected_category >= Len(categories)
       \/ /\ SelectedCategoryName \in DOMAIN commands
          /\ selected_command /= None
          /\ selected_command >= Len(commands[SelectedCategoryName])

\* let mut final_command = command_to_run.clone() (line 1114) is reached
Scanned(out) == out /= <<>> /\ out[1][1] \in {"spawn", "mismatched", "prompt"}

\* the engine waits for a line (lines 1122-1124)
Prompted(out) == out /= <<>> /\ out[1][1] = "prompt"

\* Enter is read (line 682): the key is not Down
command_enter ==
    /\ pc = "loop" /\ input_mode = "Normal" /\ mode = "Command"
    /\ downs' = NotCounted
    /\ terminal' = "released"
    /\ LET out == IF CommandIndexOk
                  THEN <<run_command(SelectedCategoryName,
                                     commands[SelectedCategoryName][selected_command + 1][1],
                                     config)>>
                  ELSE <<>>
       IN /\ effects' = run_effects(effects, out)
          /\ pc' = IF EnterPanics THEN "panicked"
                   ELSE IF Prompted(out) THEN "scan" ELSE "done"
          /\ final_command' =
                IF Scanned(out)
                THEN config[SelectedCategoryName]
                           [commands[SelectedCategoryName][selected_command + 1][1]]
                ELSE final_command
    /\ UNCHANGED <<file, config, appVars, inserts, keyboard>>

----------------------------------------------------------------------------
(* InputMode::Normal, Mode::Buttons (lines 814-879) *)

buttons_esc ==
    /\ Read("Esc") /\ input_mode = "Normal" /\ mode = "Buttons"
    /\ LeaveTui

buttons_left ==
    /\ Read("Left") /\ input_mode = "Normal" /\ mode = "Buttons"
    /\ IF selected_button = None
       THEN UNCHANGED <<selected_button, mode>>
       ELSE IF selected_button > 0
       THEN selected_button' = Some(selected_button - 1) /\ UNCHANGED mode
       ELSE mode' = "Command" /\ UNCHANGED selected_button
    /\ Stay
    /\ UNCHANGED <<file, config, categories, commands, selected_category,
                   selected_command, input_mode, input, category_state,
                   command_state>>

\* Mutant: Right moves on past the last button
buttons_right_unbounded ==
    /\ Read("Right") /\ input_mode = "Normal" /\ mode = "Buttons"
    /\ IF selected_button /= None /\ selected_button < 2
       THEN selected_button' = Some(selected_button + 1)
       ELSE UNCHANGED selected_button
    /\ Stay
    /\ UNCHANGED <<file, config, categories, commands, selected_category,
                   selected_command, mode, input_mode, input, category_state,
                   command_state>>

buttons_right ==
    /\ Read("Right") /\ input_mode = "Normal" /\ mode = "Buttons"
    /\ IF selected_button /= None /\ selected_button < 1
       THEN selected_button' = Some(selected_button + 1)
       ELSE UNCHANGED selected_button
    /\ Stay
    /\ UNCHANGED <<file, config, categories, commands, selected_category,
                   selected_command, mode, input_mode, input, category_state,
                   command_state>>

\* Selection left by the Delete button (lines 871-873)
delete_selection(commands_len) == Some(0)

\* Mutant: Update also returns to the command list
buttons_enter_update_leaves ==
    /\ Read("Enter") /\ input_mode = "Normal" /\ mode = "Buttons"
    /\ selected_button = 0
    /\ IF selected_command = None
       THEN Stay /\ UNCHANGED <<file, config, appVars>>
       ELSE IF ~CommandIndexOk
       THEN Panic
       ELSE /\ input' = commands[SelectedCategoryName][selected_command + 1][2]
            /\ input_mode' = "Editing"
            /\ mode' = "Command"
            /\ Stay
            /\ UNCHANGED <<file, config, categories, commands, selected_category,
                           selected_command, selected_button, category_state,
                           command_state>>

\* Button 0, Update (lines 839-849)
buttons_enter_update ==
    /\ Read("Enter") /\ input_mode = "Normal" /\ mode = "Buttons"
    /\ selected_button = 0
    /\ IF selected_command = None
       THEN Stay /\ UNCHANGED <<file, config, appVars>>
       ELSE IF ~CommandIndexOk
       THEN Panic
       ELSE /\ input' = commands[SelectedCategoryName][selected_command + 1][2]
            /\ input_mode' = "Editing"
            /\ Stay
            /\ UNCHANGED <<file, config, categories, commands, selected_category,
                           selected_command, selected_button, mode, category_state,
                           command_state>>

\* Button 1, Delete (lines 850-875)
buttons_enter_delete ==
    /\ Read("Enter") /\ input_mode = "Normal" /\ mode = "Buttons"
    /\ selected_button = 1
    /\ IF selected_command = None
       THEN Stay /\ UNCHANGED <<file, config, appVars>>
       ELSE IF ~CommandIndexOk
       THEN Panic
       ELSE \E wok \in BOOLEAN :
            LET category == SelectedCategoryName
                alias == commands[category][selected_command + 1][1]
                list == RemoveAt(commands[category], selected_command)
                cfg == IF category \in DOMAIN config
                       THEN Put(config, category, Del(config[category], alias))
                       ELSE config
                s1 == update_config_file(Store(cfg, file), wok)
            IN /\ UNCHANGED inserts
               /\ commands' = Put(commands, category, list)
               /\ config' = s1.config
               /\ file' = s1.file
               /\ IF s1.panicked
                  THEN /\ pc' = "panicked"
                       /\ UNCHANGED <<mode, command_state, selected_command>>
                  ELSE /\ pc' = pc
                       /\ mode' = "Command"
                       /\ command_state' = Some(0)
                       /\ selected_command' = delete_selection(Len(list))
               /\ UNCHANGED <<terminal, effects, categories, selected_category,
                              selected_button, input_mode, input, category_state>>

----------------------------------------------------------------------------
(* InputMode::Editing (lines 881-907) *)

editing_enter ==
    /\ Read("Enter") /\ input_mode = "Editing"
    /\ IF selected_command = None
       THEN Stay /\ UNCHANGED <<file, config, appVars>>
       ELSE IF ~CommandIndexOk
       THEN Panic
       ELSE \E wok \in BOOLEAN :
            LET category == SelectedCategoryName
                alias == commands[category][selected_command + 1][1]
                s1 == update_command(category, input, alias, Store(config, file), wok)
                s2 == update_config_file(s1, wok)
            IN /\ Insert
               /\ config' = s2.config
               /\ file' = s2.file
               /\ IF s1.panicked
                  THEN /\ pc' = "panicked"
                       /\ UNCHANGED <<commands, input_mode, input>>
                  ELSE /\ commands' =
                            Put(commands, category,
                                [commands[category] EXCEPT
                                    ![selected_command + 1] = <<alias, input>>])
                       /\ IF s2.panicked
                          THEN pc' = "panicked" /\ UNCHANGED <<input_mode, input>>
                          ELSE /\ pc' = pc
                               /\ input_mode' = "Normal"
                               /\ input' = <<>>
               /\ UNCHANGED <<terminal, effects, categories, selected_category,
                              selected_command, selected_button, mode,
                              category_state, command_state>>

\* Mutant: the buffer is not cleared
capture_cancel_keeps ==
    /\ \/ Read("Esc") /\ input_mode \in {"Editing", "Adding"}
       \/ Read("Up") /\ input_mode = "Adding"
    /\ input_mode' = "Normal"
    /\ Stay
    /\ UNCHANGED <<file, config, categories, commands, selected_category,
                   selected_command, selected_button, mode, category_state,
                   command_state, input>>

\* Esc while Editing; Esc or Up while Adding (lines 896-899, 962-965)
capture_cancel ==
    /\ \/ Read("Esc") /\ input_mode \in {"Editing", "Adding"}
       \/ Read("Up") /\ input_mode = "Adding"
    /\ input_mode' = "Normal"
    /\ input' = <<>>
    /\ Stay
    /\ UNCHANGED <<file, config, categories, commands, selected_category,
                   selected_command, selected_button, mode, category_state,
                   command_state>>

\* KeyCode::Char(c) while Editing or Adding (lines 900-902, 966-968)
capture_char ==
    /\ \E c \in keyboard : Read(c) /\ input' = Append(input, c)
    /\ input_mode \in {"Editing", "Adding"}
    /\ Len(input) < MaxInput
    /\ Stay
    /\ UNCHANGED <<file, config, categories, commands, selected_category,
                   selected_command, selected_button, mode, input_mode,
                   category_state, command_state>>

\* KeyCode::Backspace while Editing or Adding (lines 903-905, 969-971)
capture_backspace ==
    /\ Read("Backspace")
    /\ input_mode \in {"Editing", "Adding"}
    /\ input' = Pop(input)
    /\ Stay
    /\ UNCHANGED <<file, config, categories, commands, selected_category,
                   selected_command, selected_button, mode, input_mode,
                   category_state, command_state>>

----------------------------------------------------------------------------
(* InputMode::Adding (lines 908-973) *)

\* Mutant: a known name is added again
categories_contains_never(cats, category) == FALSE

\* app_state.categories.contains(&category)
categories_contains(cats, category) == \E i \in DOMAIN cats : cats[i] = category

\* Enter with mode == Category and a non-empty buffer (lines 910-919)
adding_enter_category ==
    /\ Read("Enter") /\ input_mode = "Adding"
    /\ mode = "Category" /\ input /= <<>>
    /\ IF categories_contains(categories, input)
       THEN Stay /\ UNCHANGED <<file, config, appVars>>
       ELSE /\ Insert
            /\ \E wok \in BOOLEAN :
               LET category == input
                   s1 == add_category_to_config(category, Store(config, file), wok)
                   s2 == update_config_file(s1, wok)
               IN /\ config' = s2.config
                  /\ file' = s2.file
                  /\ IF s1.panicked
                     THEN /\ pc' = "panicked"
                          /\ UNCHANGED <<categories, commands, input_mode, input>>
                     ELSE /\ categories' = Append(categories, category)
                          /\ commands' = Put(commands, category, <<>>)
                          /\ IF s2.panicked
                             THEN pc' = "panicked" /\ UNCHANGED <<input_mode, input>>
                             ELSE /\ pc' = pc
                                  /\ input_mode' = "Normal"
                                  /\ input' = <<>>
                  /\ UNCHANGED <<terminal, effects, selected_category,
                                 selected_command, selected_button, mode,
                                 category_state, command_state>>

\* Mutant: the alias is never found, an existing entry is overwritten
alias_exists_never(category, alias, cfg) == FALSE

\* config.categories.get(category).map_or(false, |cmds| cmds.contains_key(&alias))
alias_exists(category, alias, cfg) ==
    category \in DOMAIN cfg /\ alias \in DOMAIN cfg[category]

\* Enter with mode == Command and a non-empty buffer (lines 920-960)
adding_enter_command ==
    /\ Read("Enter") /\ input_mode = "Adding"
    /\ mode = "Command" /\ input /= <<>>
    /\ LET parts == splitn_2(input)
       IN IF Len(parts) /= 2
          THEN Stay /\ UNCHANGED <<file, config, appVars>>
          ELSE IF selected_category = None \/ selected_category >= Len(categories)
          THEN Panic
          ELSE LET alias == parts[1]
                   command == parts[2]
                   category == SelectedCategoryName
                   cfg == IF category \in DOMAIN config
                          THEN Put(config, category, Put(config[category], alias, command))
                          ELSE Put(config, category, Put(EmptyMap, alias, command))
                   old == IF category \in DOMAIN commands
                          THEN commands[category] ELSE <<>>
               IN IF alias_exists(category, alias, config)
                  THEN Stay /\ UNCHANGED <<file, config, appVars>>
                  ELSE /\ Insert
                       /\ \E wok \in BOOLEAN :
                          LET s1 == update_config_file(Store(cfg, file), wok)
                          IN /\ config' = s1.config
                             /\ file' = s1.file
                             /\ commands' = Put(commands, category,
                                                Append(old, <<alias, command>>))
                             /\ IF s1.panicked
                                THEN /\ pc' = "panicked"
                                     /\ UNCHANGED <<mode, input_mode, input>>
                                ELSE /\ pc' = pc
                                     /\ mode' = "Command"
                                     /\ input_mode' = "Normal"
                                     /\ input' = <<>>
                             /\ UNCHANGED <<terminal, effects, categories,
                                            selected_category, selected_command,
                                            selected_button, category_state,
                                            command_state>>

\* Enter with an empty buffer, or with mode == Buttons: neither branch is taken
adding_enter_nothing ==
    /\ Read("Enter") /\ input_mode = "Adding"
    /\ input = <<>> \/ mode = "Buttons"
    /\ Stay
    /\ UNCHANGED <<file, config, appVars>>

----------------------------------------------------------------------------
(* The `_ => {}` arms *)

Handled ==
    CASE input_mode = "Editing" -> {"Enter", "Esc", "Backspace"} \cup Chars
      [] input_mode = "Adding" -> {"Enter", "Esc", "Up", "Backspace"} \cup Chars
      [] input_mode = "Normal" /\ mode = "Category" ->
            {"Esc", "Up", "Down", "Enter", "Right", "d"}
      [] input_mode = "Normal" /\ mode = "Command" ->
            {"Esc", "Up", "Down", "Left", "Right", "Enter"}
      [] OTHER -> {"Esc", "Left", "Right", "Enter"}

\* ... and Enter at Buttons when selected_button is neither Some(0) nor Some(1)
\* (Read tells Down from the other keys only: one other key stands for them all)
ignored_key ==
    /\ \/ \E k \in {x \in Keys \ Handled : x = "Down"}
                       \cup {CHOOSE x \in Keys \ Handled : x /= "Down"} : Read(k)
       \/ /\ Read("Enter") /\ input_mode = "Normal" /\ mode = "Buttons"
          /\ selected_button \notin {0, 1}
    /\ Stay
    /\ UNCHANGED <<file, config, appVars>>

----------------------------------------------------------------------------
(* The scripted CLI: main with arguments (lines 165-218) *)

CliDone(st) ==
    /\ config' = st.config
    /\ file' = st.file
    /\ pc' = IF st.panicked THEN "panicked" ELSE "done"
    /\ UNCHANGED <<terminal, effects, appVars, downs, inserts, keyboard,
                   final_command>>

\* fs::read_to_string or serde_json::from_str fails
main_config_unreadable ==
    /\ pc = "main"
    /\ pc' = "panicked"
    /\ UNCHANGED <<terminal, effects, file, config, appVars, downs, inserts,
                   keyboard, final_command>>

main_add ==
    /\ pc = "main"
    /\ \E category \in CliCategories, alias \in CliAliases, command \in CliTexts,
          wok \in BOOLEAN :
          CliDone(add_command(category, command, alias, Store(file, file), wok))

main_add_category ==
    /\ pc = "main"
    /\ \E category \in CliCategories, wok \in BOOLEAN :
          CliDone(add_category_to_config(category, Store(file, file), wok))

main_run ==
    /\ pc = "main"
    /\ \E category \in CliCategories, alias \in CliAliases :
          LET out == <<run_command(category, alias, file)>>
          IN /\ effects' = effects \o out
             /\ pc' = IF Prompted(out) THEN "scan" ELSE "done"
             /\ final_command' = IF Scanned(out) THEN file[category][alias]
                                 ELSE final_command
    /\ config' = file
    /\ UNCHANGED <<terminal, file, appVars, downs, inserts, keyboard>>

\* The lines a user enters at a prompt
LineChars == {"<", " ", "d"}

Lines == UNION {[1..n -> LineChars] : n \in 0..MaxLine}

\* One pass of the loop body from read_line on (lines 1122-1127), then the
\* next test of the loop: the line is read, trimmed and spliced in
placeholder_read ==
    /\ pc = "scan"
    /\ \E line \in Lines, rok \in BOOLEAN :
          LET prompt == effects[Len(effects)]
              value == trim(line)
              fc == replacen_1(final_command,
                               Open \o placeholder_of(final_command) \o Close, value)
              out == scan(prompt[2], prompt[3], fc)
          IN IF rok
             THEN /\ final_command' = fc
                  /\ effects' = effects \o << <<"read", line>>, out >>
                  /\ pc' = IF out[1] = "prompt" THEN "scan" ELSE "done"
             ELSE /\ pc' = "panicked"
                  /\ UNCHANGED <<final_command, effects>>
    /\ UNCHANGED <<terminal, file, config, appVars, downs, inserts, keyboard>>

main_delete ==
    /\ pc = "main"
    /\ \E category \in CliCategories, alias \in CliAliases, wok \in BOOLEAN :
          CliDone(remove_command_from_config(category, alias, Store(file, file), wok))

main_delete_category ==
    /\ pc = "main"
    /\ \E category \in CliCategories, wok \in BOOLEAN :
          CliDone(remove_category_from_config(category, Store(file, file), wok))

main_update ==
    /\ pc = "main"
    /\ \E category \in CliCategories, alias \in CliAliases, command \in CliTexts,
          wok \in BOOLEAN :
          CliDone(update_command(category, command, alias, Store(file, file), wok))

\* list, and add with an alias but no command: the store is only read
main_list ==
    /\ pc = "main"
    /\ CliDone(Store(file, file))

----------------------------------------------------------------------------

Next ==
    \/ start_tui
    \/ main_config_unreadable
    \/ main_add
    \/ main_add_category
    \/ main_run
    \/ main_delete
    \/ main_delete_category
    \/ main_update
    \/ main_list
    \/ placeholder_read
    \/ category_esc
    \/ category_up
    \/ category_down
    \/ category_enter_right
    \/ category_d
    \/ command_esc
    \/ command_up
    \/ command_down
    \/ command_left
    \/ command_right
    \/ command_enter
    \/ buttons_esc
    \/ buttons_left
    \/ buttons_right
    \/ buttons_enter_update
    \/ buttons_enter_delete
    \/ editing_enter
    \/ capture_cancel
    \/ capture_char
    \/ capture_backspace
    \/ adding_enter_category
    \/ adding_enter_command
    \/ adding_enter_nothing
    \/ ignored_key

Spec == Init /\ [][Next]_vars

\* The same program at a keyboard that sends U+00A0
InitNbsp ==
    /\ pc = "main"
    /\ terminal = "cooked"
    /\ effects = <<>>
    /\ file \in InitStores
    /\ config = EmptyMap
    /\ categories = <<>>
    /\ commands = EmptyMap
    /\ selected_category = None
    /\ selected_command = None
    /\ selected_button = None
    /\ mode = "Category"
    /\ input_mode = "Normal"
    /\ input = <<>>
    /\ category_state = None
    /\ command_state = None
    /\ downs = 0
    /\ inserts = 0
    /\ keyboard = {" ", Nbsp}
    /\ final_command = <<>>

SpecNbsp == InitNbsp /\ [][Next]_vars

\* The process started as `bsh run <category> <alias>` on a store whose one
\* text is made of markers, tokens and loose marker characters
Pieces == {TextToken, Open, Close, <<"[">>, <<" ">>}

RECURSIVE Flatten(_)
Flatten(ps) == IF ps = <<>> THEN <<>> ELSE Head(ps) \o Flatten(Tail(ps))

RunTexts == {Flatten(ps) : ps \in UNION {[1..n -> Pieces] : n \in 0..MaxPieces}}

InitRun ==
    /\ pc = "main"
    /\ terminal = "cooked"
    /\ effects = <<>>
    /\ file \in {Put(EmptyMap, NameA, Put(EmptyMap, AliasX, x)) : x \in RunTexts}
    /\ config = EmptyMap
    /\ categories = <<>>
    /\ commands = EmptyMap
    /\ selected_category = None
    /\ selected_command = None
    /\ selected_button = None
    /\ mode = "Category"
    /\ input_mode = "Normal"
    /\ input = <<>>
    /\ category_state = None
    /\ command_state = None
    /\ downs = 0
    /\ inserts = 0
    /\ keyboard = {"d", " "}
    /\ final_command = <<>>

NextRun ==
    \/ main_run
    \/ placeholder_read

SpecRun == InitRun /\ [][NextRun]_vars

\* The run with its steps taken: the process runs, and each prompt is
\* answered (read_line returns) or fails
SpecRunFair == SpecRun /\ WF_vars(NextRun)

----------------------------------------------------------------------------
(* Properties *)

Range(s) == {s[i] : i \in DOMAIN s}

Ended == pc \in {"done", "panicked"}

\* The session is in its first state: no key has been read yet
AtSessionStart == pc = "loop" /\ downs = 0

\* C1: whenever the process has ended, by Esc, by Enter at CommandList or by a
\* failure, the terminal is no longer in raw mode.
C1_ReleasedAtExit == Ended => terminal /= "raw"

\* C2: Enter at CommandList releases the terminal, then runs the selected
\* command (when the selection designates one), then ends the session: the
\* loop is left for the run's prompts or for the end of the process and is
\* never entered again, and nothing happens once the process has ended.
C2_EnterReleasesRunsEnds ==
    [][/\ command_enter =>
            /\ terminal' = "released"
            /\ pc' \in {"scan", "done", "panicked"}
            /\ effects' =
                 IF CommandIndexOk
                 THEN effects \o
                      << <<"release">>,
                         run_command(SelectedCategoryName,
                                     commands[SelectedCategoryName][selected_command + 1][1],
                                     config) >>
                 ELSE Append(effects, <<"release">>)
       /\ pc = "scan" => pc' \in {"scan", "done", "panicked"}
       /\ ~Ended]_vars

C2_Witness ==
    /\ pc = "done"
    /\ effects = << <<"raw">>, <<"release">>, <<"spawn", NameA, AliasX, TextD>> >>

\* C3: while the session reads keys, the ordered snapshot holds the store: the
\* listed category names are the store's keys, and each category's list holds
\* exactly the store's (alias, text) entries of that category.
C3_SnapshotSynced ==
    pc = "loop" =>
        /\ Range(categories) = DOMAIN config
        /\ DOMAIN commands = DOMAIN config
        /\ \A c \in DOMAIN config :
              /\ Range(commands[c]) = Pairs(config[c])
              /\ Len(commands[c]) = Cardinality(DOMAIN config[c])

C3_Witness ==
    /\ pc = "loop" /\ inserts = 1
    /\ NameA \in DOMAIN config /\ Cardinality(DOMAIN config[NameA]) = 3
    /\ Range(commands[NameA]) = Pairs(config[NameA])

\* C4: whenever a key is about to be read, and when the process has ended
\* normally, the persisted file holds the in-memory store.
C4_WriteThrough == pc \in {"loop", "done"} => file = config

C4_Witness == pc = "loop" /\ config \notin InitStores /\ file = config

\* C5: the first state of the session is Category / Normal with an empty
\* buffer, no command selected, and category 0 selected if there is a category
\* and none otherwise.
C5_InitialState ==
    AtSessionStart =>
        /\ mode = "Category"
        /\ input_mode = "Normal"
        /\ input = <<>>
        /\ selected_command = None
        /\ selected_category = IF categories /= <<>> THEN Some(0) ELSE None

\* C6: Esc in Normal input mode, in any mode, releases the terminal and ends
\* the session; the store is not changed and no command is run.
C6_EscQuits ==
    [][(category_esc \/ command_esc \/ buttons_esc) =>
            /\ terminal' = "released"
            /\ pc' = "done"
            /\ effects' = Append(effects, <<"release">>)
            /\ UNCHANGED <<config, file, categories, commands>>]_vars

C6_Witness ==
    /\ pc = "done" /\ mode = "Buttons" /\ input_mode = "Normal"
    /\ effects = << <<"raw">>, <<"release">> >>

\* C7: Down in Normal input mode at Category or Command moves the selection
\* down by one when it is not on the last item, and otherwise (last item, or
\* empty list) enters Adding with an empty buffer and leaves the selection;
\* the selection never moves past the last index.
C7_DownMovesOrAdds ==
    [][(category_down \/ command_down) =>
          LET list == IF mode = "Category" THEN categories
                      ELSE IF CategoryIndexOk THEN commands[SelectedCategoryName]
                      ELSE <<>>
              sel == IF mode = "Category" THEN selected_category ELSE selected_command
              sel2 == IF mode = "Category" THEN selected_category' ELSE selected_command'
          IN /\ IF list /= <<>> /\ sel /= Len(list) - 1
                THEN sel2 = sel + 1 /\ input_mode' = "Normal"
                ELSE input_mode' = "Adding" /\ input' = <<>> /\ sel2 = sel
             /\ sel2 /= sel => sel2 < Len(list)]_vars

\* C8 as stated: from two categories, the first selected, two Down presses leave the
\* selection on 1 in Normal mode and the third enters Adding.
C8_ThirdDownAdds ==
    (pc = "loop" /\ categories = <<NameA, NameB>>) =>
        /\ downs = 2 => selected_category = 1 /\ input_mode = "Normal"
        /\ downs = 3 => selected_category = 1 /\ input_mode = "Adding" /\ input = <<>>

\* C8 amended: from two categories, the first selected, one Down press moves the
\* selection to 1, the second enters Adding with an empty buffer and leaves
\* the selection on 1, and further Down presses change nothing.
C8_SecondDownAdds ==
    (pc = "loop" /\ categories = <<NameA, NameB>>) =>
        /\ downs = 0 => selected_category = 0 /\ input_mode = "Normal"
        /\ downs = 1 => selected_category = 1 /\ input_mode = "Normal"
        /\ downs \in 2..MaxDowns =>
              selected_category = 1 /\ input_mode = "Adding" /\ input = <<>>

C8_Witness ==
    /\ pc = "loop" /\ categories = <<NameA, NameB>> /\ downs = 3
    /\ selected_category = 1 /\ input_mode = "Adding"

\* C9: Right or Enter at Category descends to Command, selecting command 0,
\* exactly when there is a category; with no category nothing changes, and
\* the session is never at Command or Buttons with no category.
C9_DescendIffCategory ==
    /\ [][category_enter_right =>
             IF categories /= <<>>
             THEN /\ mode' = "Command"
                  /\ selected_command' = Some(0)
                  /\ command_state' = Some(0)
             ELSE UNCHANGED <<pc, terminal, effects, file, config, appVars>>]_vars
    /\ [](mode /= "Category" => categories /= <<>>)

C9_Witness ==
    /\ pc = "loop" /\ downs = NotCounted /\ mode = "Command"
    /\ selected_command = 0 /\ categories /= <<>> /\ inserts = 0

\* C10: d at Category on a selected category, the write succeeding, removes
\* the category with its entries from the store, the snapshot and the file,
\* leaves the other categories as they were, stays at Category, and selects
\* nothing if no category is left, the previous index if the last item was
\* deleted, and the same index otherwise.
C10_DeleteCategory ==
    [][(/\ category_d
        /\ category_state /= None /\ category_state < Len(categories)
        /\ pc' = "loop") =>
          LET c == categories[category_state + 1]
              n == Len(categories)
          IN /\ DOMAIN config' = DOMAIN config \ {c}
             /\ DOMAIN commands' = DOMAIN commands \ {c}
             /\ file' = config'
             /\ \A o \in DOMAIN config' :
                   config'[o] = config[o] /\ commands'[o] = commands[o]
             /\ categories' = SelectSeq(categories, LAMBDA x : x /= c)
             /\ mode' = "Category"
             /\ selected_category' =
                   IF n = 1 THEN None
                   ELSE IF category_state = n - 1 THEN Some(category_state - 1)
                   ELSE Some(category_state)
             /\ selected_category' /= None => selected_category' < Len(categories')
             /\ category_state' = selected_category']_vars

C10_Witness ==
    /\ pc = "loop" /\ inserts = 0
    /\ categories = <<NameB>> /\ DOMAIN config = {NameB} /\ DOMAIN file = {NameB}
    /\ DOMAIN commands = {NameB} /\ selected_category = 0 /\ mode = "Category"

\* The list l without its element of 0-based index i
Without(l, i) == SubSeq(l, 1, i) \o SubSeq(l, i + 2, Len(l))

\* C11: Enter on the Delete button always finds a selected entry; the write
\* succeeding, it removes exactly that entry from the store, the file and the
\* snapshot, leaves every other entry with its text and its relative order,
\* keeps the owning category even when its last command goes, and returns to
\* Command / Normal.
C11_DeleteCommand ==
    /\ [][buttons_enter_delete => CommandIndexOk]_vars
    /\ [][(buttons_enter_delete /\ pc' = "loop") =>
            LET c == SelectedCategoryName
                a == commands[c][selected_command + 1][1]
            IN /\ DOMAIN config' = DOMAIN config
               /\ DOMAIN config'[c] = DOMAIN config[c] \ {a}
               /\ \A o \in DOMAIN config' : \A b \in DOMAIN config'[o] :
                     config'[o][b] = config[o][b]
               /\ \A o \in DOMAIN config \ {c} : config'[o] = config[o]
               /\ file' = config'
               /\ DOMAIN commands' = DOMAIN commands
               /\ commands'[c] = Without(commands[c], selected_command)
               /\ \A o \in DOMAIN commands \ {c} : commands'[o] = commands[o]
               /\ categories' = categories
               /\ mode' = "Command"
               /\ input_mode' = "Normal"]_vars

C11_Witness ==
    /\ pc = "loop" /\ inserts = 0 /\ mode = "Command" /\ selected_button = 1
    /\ categories = <<NameA>> /\ config = Put(EmptyMap, NameA, EmptyMap)
    /\ file = config /\ commands[NameA] = <<>>

\* C12: after Enter on the Delete button the command selection is a valid
\* index of the category's remaining list, or none when that list is empty.
C12_DeleteReclamps ==
    [][(buttons_enter_delete /\ pc' = "loop") =>
          LET list == commands'[SelectedCategoryName]
          IN IF list = <<>>
             THEN selected_command' = None
             ELSE selected_command' /= None /\ selected_command' < Len(list)]_vars

\* C13: Enter while Editing, the write succeeding, makes the buffer the text
\* of the selected command's alias in the store, the file and the snapshot,
\* keeps the alias and its position and every other entry, and returns to
\* Command / Normal.
C13_EditCommits ==
    [][(editing_enter /\ pc' = "loop") =>
          LET c == SelectedCategoryName
              a == commands[c][selected_command + 1][1]
          IN /\ config' = [config EXCEPT ![c][a] = input]
             /\ file' = config'
             /\ commands' = [commands EXCEPT ![c][selected_command + 1] = <<a, input>>]
             /\ categories' = categories
             /\ mode' = "Command"
             /\ input_mode' = "Normal"]_vars

\* C14: Enter while Adding at Category, the write succeeding: a non-empty
\* buffer that names no category of the store is appended to the category
\* list and added to the store, the file and the snapshot with no entry, and
\* the input mode returns to Normal with an empty buffer; an empty buffer or
\* an existing name changes neither the store, the file nor the snapshot.
C14_AddCategory ==
    [][((adding_enter_category \/ (adding_enter_nothing /\ mode = "Category"))
        /\ pc' = "loop") =>
          IF input /= <<>> /\ input \notin DOMAIN config
          THEN /\ categories' = Append(categories, input)
               /\ DOMAIN config' = DOMAIN config \cup {input}
               /\ config'[input] = EmptyMap
               /\ \A o \in DOMAIN config : config'[o] = config[o]
               /\ file' = config'
               /\ DOMAIN commands' = DOMAIN commands \cup {input}
               /\ commands'[input] = <<>>
               /\ \A o \in DOMAIN commands : commands'[o] = commands[o]
               /\ input_mode' = "Normal"
               /\ input' = <<>>
          ELSE UNCHANGED <<config, file, categories, commands>>]_vars

C14_Witness ==
    /\ pc = "loop" /\ inserts = 1 /\ mode = "Category" /\ input_mode = "Normal"
    /\ input = <<>> /\ categories = <<NameA, <<"d">> >>
    /\ config = Put(Put(EmptyMap, NameA, EmptyMap), <<"d">>, EmptyMap)
    /\ file = config /\ commands[<<"d">>] = <<>>

\* s holds a character of S
Has(s, S) == \E i \in DOMAIN s : s[i] \in S

\* s before and after its first character of S
SplitAt(s, S) ==
    LET p == CHOOSE i \in DOMAIN s : s[i] \in S /\ \A j \in 1..(i - 1) : s[j] \notin S
    IN <<SubSeq(s, 1, p - 1), SubSeq(s, p + 1, Len(s))>>

\* Enter while Adding at Command adds the entry that the buffer, split at its
\* first character of S, denotes
CommitAdds(S) ==
    LET c == SelectedCategoryName
        alias == SplitAt(input, S)[1]
        text == SplitAt(input, S)[2]
    IN /\ DOMAIN config' = DOMAIN config
       /\ DOMAIN config'[c] = DOMAIN config[c] \cup {alias}
       /\ config'[c][alias] = text
       /\ \A b \in DOMAIN config[c] : config'[c][b] = config[c][b]
       /\ \A o \in DOMAIN config \ {c} : config'[o] = config[o]
       /\ file' = config'
       /\ commands' = [commands EXCEPT ![c] = Append(@, <<alias, text>>)]
       /\ categories' = categories
       /\ mode' = "Command"
       /\ input_mode' = "Normal"

\* The buffer, split at its first character of S, is one that Enter while
\* Adding at Command commits
Commits(S) ==
    /\ Has(input, S)
    /\ SplitAt(input, S)[1] \notin DOMAIN config[SelectedCategoryName]

\* While a command is being added the selection designates a category
AddingCommandHasCategory ==
    (pc = "loop" /\ input_mode = "Adding" /\ mode = "Command") =>
        CategoryIndexOk /\ SelectedCategoryName \in DOMAIN config

\* C15 as stated: the buffer is split at its first whitespace character.
C15_SplitOnWhitespace ==
    [][(adding_enter_command /\ pc' = "loop" /\ CategoryIndexOk
        /\ Commits(Whitespace)) => CommitAdds(Whitespace)]_vars

\* C15 amended: Enter while Adding at Command, the write succeeding, with a
\* buffer that holds a space (U+0020) and whose alias, the text before the
\* first space, is not in the selected category, adds alias -> text (the text
\* after that space) to the store and the file, appends it to the category's
\* list, and returns to Command / Normal; other whitespace does not split.
C15_SplitOnSpace ==
    /\ [][(adding_enter_command /\ pc' = "loop" /\ Commits({" "}))
            => CommitAdds({" "})]_vars
    /\ []AddingCommandHasCategory

C15_Witness ==
    /\ pc = "loop" /\ inserts = 1 /\ mode = "Command" /\ input_mode = "Normal"
    /\ categories = <<NameA>> /\ commands[NameA] = << <<<<Nbsp>>, <<>> >> >>
    /\ config = Put(EmptyMap, NameA, Put(EmptyMap, <<Nbsp>>, <<>>))
    /\ file = config

\* C16 as stated: a buffer with no whitespace, or whose alias (the text before
\* the first whitespace character) is in the selected category, is dropped.
C16_DroppedByWhitespace ==
    [][(adding_enter_command /\ CategoryIndexOk
        /\ SelectedCategoryName \in DOMAIN config
        /\ ~Commits(Whitespace)) =>
            /\ UNCHANGED <<config, file, categories, commands>>
            /\ input_mode' = "Adding"]_vars

\* C16 amended: Enter while Adding at Command with a buffer that holds no
\* space (U+0020), or whose alias (the text before the first space) is in the
\* selected category, changes neither the store, the file nor the snapshot,
\* so the existing entry keeps its text, and the input mode stays Adding.
C16_DroppedBySpace ==
    /\ [][(adding_enter_command /\ ~Commits({" "})) =>
            /\ UNCHANGED <<config, file, categories, commands>>
            /\ input_mode' = "Adding"]_vars
    /\ []AddingCommandHasCategory

C16_Witness ==
    /\ pc = "loop" /\ inserts = 0 /\ mode = "Command" /\ input_mode = "Adding"
    /\ input = <<" ", Nbsp>> /\ CategoryIndexOk /\ SelectedCategoryName = NameA
    /\ AliasY \in DOMAIN config[NameA] /\ config[NameA][AliasY] = <<>>
    /\ ~Commits({" "})

\* C17: Esc while Editing or Adding (and Up while Adding) empties the buffer,
\* returns to Normal, and changes nothing else: not the store, the file, the
\* snapshot, the mode, the selections or the terminal; the session goes on.
C17_EscCancels ==
    [][capture_cancel =>
          /\ input' = <<>>
          /\ input_mode' = "Normal"
          /\ pc' = "loop"
          /\ UNCHANGED <<config, file, categories, commands, mode,
                         selected_category, selected_command, selected_button,
                         category_state, command_state, terminal, effects>>]_vars

C17_Witness ==
    /\ pc = "loop" /\ downs = NotCounted /\ inserts = 0
    /\ mode = "Buttons" /\ input_mode = "Normal" /\ input = <<>>
    /\ selected_button = 0 /\ file = config

\* C18: for every category, alias and text, update_command on any store a
\* process ends with (every store a process reaches is one it can end with)
\* leaves alias -> text in the category, creating the category if it was
\* missing, changes no other entry, and writes the file.
C18_UpdateSetsEntry ==
    Ended =>
    \A c \in CliCategories \cup DOMAIN config, a \in CliAliases, x \in CliTexts :
        LET s == update_command(c, x, a, Store(config, file), TRUE)
            was == IF c \in DOMAIN config THEN DOMAIN config[c] ELSE {}
        IN /\ ~s.panicked
           /\ DOMAIN s.config = DOMAIN config \cup {c}
           /\ DOMAIN s.config[c] = was \cup {a}
           /\ s.config[c][a] = x
           /\ \A b \in was \ {a} : s.config[c][b] = config[c][b]
           /\ \A o \in DOMAIN config \ {c} : s.config[o] = config[o]
           /\ s.file = s.config

C18_Witness ==
    /\ pc = "done" /\ terminal = "cooked" /\ file = config
    /\ DOMAIN config = {NameA} /\ DOMAIN config[NameA] = {AliasX, AliasY}
    /\ config[NameA][AliasX] = <<" ">> /\ config[NameA][AliasY] = <<>>

\* C19: after remove_category_from_config(c) the category is not in the
\* store, has-alias answers no for each alias it held, every other category
\* is as it was, and the file was written exactly when c was in the store.
C19_RemoveCategoryCascades ==
    \A c \in CliCategories \cup DOMAIN config :
        LET st == Store(config, file)
            s == remove_category_from_config(c, st, TRUE)
            was == IF c \in DOMAIN config THEN DOMAIN config[c] ELSE {}
        IN /\ ~check_if_category_exists(c, s.config)
           /\ \A a \in was :
                 /\ ~check_if_command_exists_unwrap_fails(c, s.config)
                 /\ ~check_if_command_exists(c, a, s.config)
           /\ DOMAIN s.config = DOMAIN config \ {c}
           /\ \A o \in DOMAIN s.config : s.config[o] = config[o]
           /\ IF c \in DOMAIN config THEN s.file = s.config ELSE s = st
           /\ remove_category_from_config(c, st, FALSE).panicked
                 <=> c \in DOMAIN config

\* C20: add_category_to_config on a category of the store changes neither
\* the store nor the file and attempts no write (it cannot fail on a write).
C20_AddCategoryIdempotent ==
    \A c \in DOMAIN config, wok \in BOOLEAN :
        add_category_to_config(c, Store(config, file), wok) = Store(config, file)

C20_Witness ==
    /\ pc = "done" /\ terminal = "cooked" /\ effects = <<>> /\ file = config
    /\ DOMAIN config = {NameA} /\ DOMAIN config[NameA] = {AliasX, AliasY}
    /\ config[NameA][AliasX] = TextD

\* C21: has-alias answers no, and does not fail, for every alias of a
\* category that is not in the store.
C21_HasAliasTotal ==
    \A c \in CliCategories \ DOMAIN config, a \in CliAliases :
        /\ ~check_if_command_exists_unwrap_fails(c, config)
        /\ ~check_if_command_exists(c, a, config)

----------------------------------------------------------------------------
(* Properties of the Execution Engine, on the log of one run *)

Last(s) == s[Len(s)]

\* The lines read at the prompts so far, in order
Reads ==
    LET rs == SelectSeq(effects, LAMBDA e : e[1] = "read")
    IN [i \in 1..Len(rs) |-> rs[i][2]]

\* The run got as far as the substitution loop
RunScanned ==
    effects /= <<>> /\ effects[1][1] \in {"spawn", "mismatched", "prompt"}

\* The text the run looked up
StoredText == file[effects[1][2]][effects[1][3]]

HasMarker(s) == find(s, Open) /= None \/ find(s, Close) /= None

\* The first opening marker of s has no closing marker after it
Unmatched(s) ==
    /\ find(s, Open) /= None
    /\ find(SubSeq(s, find(s, Open) + 1, Len(s)), Close) = None

\* What stands before and after the first token of s; <<>> when s has no
\* opening marker or its first one is not closed
FirstToken(s) ==
    LET o == find(s, Open)
        c == find(SubSeq(s, o + 1, Len(s)), Close)
    IN IF o = None THEN <<>>
       ELSE IF c = None THEN <<>>
       ELSE <<SubSeq(s, 1, o), SubSeq(s, o + c + 3, Len(s))>>

\* Every token of s, met from left to right, is closed
RECURSIVE WellFormed(_)
WellFormed(s) ==
    \/ find(s, Open) = None
    \/ \A t \in {FirstToken(s)} : t /= <<>> /\ WellFormed(t[2])

\* s is n tokens, met from left to right, and text without an opening marker
RECURSIVE HasTokens(_, _)
HasTokens(s, n) ==
    IF n = 0 THEN find(s, Open) = None
    ELSE \A t \in {FirstToken(s)} : t /= <<>> /\ HasTokens(t[2], n - 1)

\* out is s with its first Len(as) tokens replaced by as, in order, and
\* everything else kept
RECURSIVE IsSpliced(_, _, _)
IsSpliced(s, as, out) ==
    IF as = <<>> THEN out = s
    ELSE \A t \in {FirstToken(s)} :
            /\ t /= <<>>
            /\ \A pre \in {t[1] \o Head(as)} :
                  /\ Len(out) >= Len(pre)
                  /\ SubSeq(out, 1, Len(pre)) = pre
                  /\ \A rest \in {SubSeq(out, Len(pre) + 1, Len(out))} :
                        IsSpliced(t[2], Tail(as), rest)

\* s without its leading and trailing whitespace
RECURSIVE Stripped(_)
Stripped(s) ==
    IF s /= <<>> /\ Head(s) \in Whitespace THEN Stripped(Tail(s))
    ELSE IF s /= <<>> /\ Last(s) \in Whitespace THEN Stripped(SubSeq(s, 1, Len(s) - 1))
    ELSE s

\* No opening marker is completed where one of the answers as meets the text
\* around it: with acc the text already spliced and s the text after it, the
\* first opening marker after each replacement is the next token of s
RECURSIVE JunctionFree(_, _, _)
JunctionFree(acc, s, as) ==
    \/ as = <<>>
    \/ \A t \in {FirstToken(s)} :
          \/ t = <<>>
          \/ \A acc2 \in {acc \o t[1] \o Head(as)} :
                /\ \A f \in {find(t[2], Open)} :
                      find(acc2 \o t[2], Open) =
                         IF f = None THEN None ELSE Len(acc2) + f
                /\ JunctionFree(acc2, t[2], Tail(as))

\* C22 as stated: when every token of the stored text is well formed and no
\* answer holds a marker, a run that has ended prompted once per token and
\* spawned the shell on the text with its k-th token replaced by the k-th
\* answer, everything else kept.
C22_OnePromptPerToken ==
    (/\ pc = "done" /\ RunScanned
     /\ \A i \in DOMAIN Reads : ~HasMarker(Reads[i])
     /\ WellFormed(StoredText)) =>
        /\ HasTokens(StoredText, Len(Reads))
        /\ Last(effects)[1] = "spawn"
        /\ IsSpliced(StoredText, Reads, Last(effects)[4])

\* C22 amended: when every token of the stored text is well formed, no answer
\* holds a marker and no answer, trimmed, completes an opening marker with the
\* text next to it, each prompt replaces the next token, left to right, by
\* its trimmed answer and keeps everything else; the run prompts once per
\* token and then spawns the shell on the result.
C22_OnePromptPerTokenTrimmed ==
    \A rs \in {Reads} : \A as \in {[i \in DOMAIN rs |-> Stripped(rs[i])]} :
       (/\ pc \in {"scan", "done"} /\ RunScanned
        /\ \A i \in DOMAIN rs : ~HasMarker(rs[i])
        /\ WellFormed(StoredText)
        /\ JunctionFree(<<>>, StoredText, as)) =>
           /\ IsSpliced(StoredText, as, final_command)
           /\ pc = "scan" =>
                 /\ ~HasTokens(StoredText, Len(rs))
                 /\ Last(effects)[1] = "prompt"
           /\ pc = "done" =>
                 /\ HasTokens(StoredText, Len(rs))
                 /\ Last(effects) =
                       <<"spawn", effects[1][2], effects[1][3], final_command>>

C22_Witness ==
    /\ pc = "done" /\ RunScanned /\ effects[1][1] = "prompt"
    /\ StoredText = TextToken \o <<"[">> \o TextToken
    /\ Reads = << <<"d">>, <<" ">> >>
    /\ Last(effects) = <<"spawn", NameA, AliasX, <<"d", "[">> >>

\* C23: the stored text is never changed by a run, and whenever the first
\* opening marker of the text being scanned has no closing marker after it
\* the run has ended on a mismatch report and has spawned nothing.
C23_UnmatchedAborts ==
    /\ [][file' = file]_vars
    /\ []((pc \in {"scan", "done"} /\ RunScanned /\ Unmatched(final_command)) =>
            /\ pc = "done"
            /\ Last(effects) =
                  <<"mismatched", effects[1][2], effects[1][3], final_command>>
            /\ \A i \in DOMAIN effects : effects[i][1] /= "spawn")

C23_Witness ==
    /\ pc = "done" /\ Len(effects) = 3 /\ effects[1][1] = "prompt"
    /\ Last(effects)[1] = "mismatched" /\ Unmatched(final_command)
    /\ StoredText = TextToken \o Open

\* A run of (c, a) finds a text that is not empty once trimmed
Runnable(c, a) ==
    /\ c \in DOMAIN file /\ a \in DOMAIN file[c]
    /\ \E i \in DOMAIN file[c][a] : file[c][a][i] \notin Whitespace

\* C24: a run reaches the substitution loop, and so a prompt or the shell,
\* only for a category and an alias of the store whose text is not empty once
\* trimmed; every other run reports the miss or the empty text, prompts for
\* nothing, spawns nothing, leaves the store and the file alone and ends
\* normally.
C24_RunOnlyStoredText ==
    /\ [][file' = file]_vars
    /\ [](pc /= "main" =>
            IF Runnable(effects[1][2], effects[1][3])
            THEN RunScanned
            ELSE /\ Len(effects) = 1
                 /\ effects[1][1] \in {"no_category", "no_command", "not_found", "empty"}
                 /\ pc = "done"
                 /\ config = file)

C24_Witness ==
    /\ pc = "done" /\ effects = << <<"empty", NameA, AliasX>> >>
    /\ file[NameA][AliasX] = <<" ", " ">> /\ config = file

\* The text after a prompt's token was replaced by the value v
Replaced(fc, v) ==
    FirstToken(fc)[1] \o v \o FirstToken(fc)[2]

\* The shell is given the text as it stands after the last replacement
SpawnsFinal ==
    (pc' = "done" /\ Last(effects')[1] = "spawn") =>
        Last(effects')[4] = final_command'

\* C25 as stated: the line entered is spliced in as it is.
C25_SplicedRaw ==
    [][(placeholder_read /\ pc' /= "panicked") =>
          /\ final_command' = Replaced(final_command, effects'[Len(effects) + 1][2])
          /\ SpawnsFinal]_vars

\* C25 amended: the value spliced in place of a token is the line entered
\* with its leading and trailing whitespace removed and no other change (no
\* escaping, no quoting), and the shell is given the resulting text as it is.
C25_SplicedTrimmed ==
    [][/\ (placeholder_read /\ pc' /= "panicked") =>
            final_command' =
               Replaced(final_command, Stripped(effects'[Len(effects) + 1][2]))
       /\ (main_run \/ placeholder_read) => SpawnsFinal]_vars

C25_Witness ==
    /\ pc = "done" /\ RunScanned /\ StoredText = TextToken \o <<"[">>
    /\ effects = << <<"prompt", NameA, AliasX, <<"x">> >>,
                    <<"read", <<" ">> >>,
                    <<"spawn", NameA, AliasX, <<"[">> >> >>

----------------------------------------------------------------------------
(* Properties of the snapshot and of the modes *)

NoDuplicate(s) == \A i, j \in DOMAIN s : s[i] = s[j] => i = j

AliasesOf(c) == [i \in DOMAIN commands[c] |-> commands[c][i][1]]

\* C26: in every state the category list names no category twice and no
\* category's command list holds two entries with the same alias.
C26_NoDuplicates ==
    /\ NoDuplicate(categories)
    /\ \A c \in DOMAIN commands : NoDuplicate(AliasesOf(c))

\* A session that has added a command to a list of two
C26_Witness ==
    /\ pc = "loop" /\ inserts = 1
    /\ NameA \in DOMAIN commands /\ Len(commands[NameA]) = 3

\* C27: the CLI add of an alias that exists in its category changes neither
\* the store nor the file and attempts no write; whatever its arguments, add
\* leaves every entry of the store with its text; and add to a category that
\* is not in the store, the writes succeeding, creates the category with that
\* one entry, in the store and in the file.
C27_AddRejectsDuplicate ==
    /\ [](\A c \in CliCategories, a \in CliAliases, x \in CliTexts, wok \in BOOLEAN :
            LET st == Store(file, file)
                r == add_command(c, x, a, st, wok)
            IN /\ (c \in DOMAIN file /\ a \in DOMAIN file[c]) => r = st
               /\ (c \notin DOMAIN file /\ wok) =>
                     /\ ~r.panicked
                     /\ r.config = Put(file, c, Put(EmptyMap, a, x))
                     /\ r.file = r.config)
    /\ [][main_add =>
            \A c \in DOMAIN file : \A a \in DOMAIN file[c] :
                /\ c \in DOMAIN file' /\ a \in DOMAIN file'[c]
                /\ file'[c][a] = file[c][a]
                /\ c \in DOMAIN config' /\ a \in DOMAIN config'[c]
                /\ config'[c][a] = file[c][a]]_vars

C27_Witness ==
    /\ pc = "done" /\ terminal = "cooked" /\ effects = <<>>
    /\ DOMAIN file = {NameA, NameB}
    /\ file[NameB] = Put(EmptyMap, AliasX, TextD)
    /\ config = file

\* C28: Editing occurs only at the action buttons with a command selected,
\* never at the category list; Adding occurs only at the category list or at
\* the command list.
C28_ModesConsistent ==
    /\ input_mode = "Editing" =>
          mode = "Buttons" /\ selected_command /= None /\ CommandIndexOk
    /\ input_mode = "Adding" => mode \in {"Category", "Command"}

C28_Witness ==
    /\ pc = "loop" /\ input_mode = "Editing" /\ mode = "Buttons"
    /\ input = <<"d", " ">>

Capturing == pc = "loop" /\ input_mode \in {"Editing", "Adding"}

CaptureEnter ==
    \/ editing_enter
    \/ adding_enter_category
    \/ adding_enter_command
    \/ adding_enter_nothing

\* C29: while Editing or Adding, whatever the mode, a character typed is
\* appended to the buffer, Backspace removes the buffer's last character
\* (nothing when it is empty), no key other than Enter changes the store, the
\* file, the snapshot, the mode or the selections, and no key leaves the
\* session.
C29_CaptureKeys ==
    [][Capturing =>
          /\ ~CaptureEnter =>
                /\ UNCHANGED <<config, file, categories, commands, mode,
                               selected_category, selected_command,
                               selected_button, category_state, command_state,
                               terminal>>
                /\ pc' = "loop"
          /\ pc' /= "done"
          /\ capture_char =>
                /\ \E c \in keyboard : input' = input \o <<c>>
                /\ input_mode' = input_mode
          /\ capture_backspace =>
                /\ input' = IF input = <<>> THEN <<>>
                            ELSE SubSeq(input, 1, Len(input) - 1)
                /\ input_mode' = input_mode]_vars

C29_Witness ==
    /\ pc = "loop" /\ input_mode = "Adding" /\ mode = "Category"
    /\ input = <<"d">> /\ Len(categories) = 2 /\ inserts = 0

\* C30: at the action buttons, Left moves from button 1 to button 0 and from
\* button 0 returns to the command list with the same command selected; Right
\* moves from button 0 to button 1 and does nothing on button 1; the selected
\* button is 0 or 1 whenever the mode is the action buttons; neither key
\* changes the store, the file or the snapshot.
C30_ButtonsLeftRight ==
    /\ [](mode = "Buttons" => selected_button \in {0, 1})
    /\ [][/\ buttons_left =>
               /\ selected_button = 1 => selected_button' = 0 /\ mode' = "Buttons"
               /\ selected_button = 0 =>
                     /\ mode' = "Command" /\ selected_button' = 0
                     /\ UNCHANGED <<selected_command, command_state>>
               /\ UNCHANGED <<config, file, categories, commands>>
          /\ buttons_right =>
               /\ selected_button = 0 => selected_button' = 1
               /\ selected_button = 1 => selected_button' = 1
               /\ mode' = "Buttons"
               /\ UNCHANGED <<config, file, categories, commands,
                              selected_command>>]_vars

C30_Witness ==
    /\ pc = "loop" /\ mode = "Buttons" /\ input_mode = "Normal"
    /\ selected_button = 1 /\ selected_command = 1

----------------------------------------------------------------------------
(* Properties of the selections *)

\* C31: while the session reads keys at the action buttons, the selected
\* category is an index of the category list, its command list is not empty,
\* the selected command is an index of that list and the selected button is 0
\* or 1; so Enter on Update and on Delete finds the command it acts on.
C31_ButtonsDesignateEntry ==
    /\ [](pc = "loop" /\ mode = "Buttons" =>
            /\ CommandIndexOk
            /\ commands[SelectedCategoryName] /= <<>>
            /\ selected_button \in {0, 1})
    /\ [][(buttons_enter_update \/ buttons_enter_delete) =>
            /\ CommandIndexOk
            /\ buttons_enter_update => input_mode' = "Editing" /\ pc' = "loop"]_vars

C31_Witness ==
    /\ pc = "loop" /\ mode = "Buttons" /\ input_mode = "Normal"
    /\ selected_button = 0 /\ selected_command = 1
    /\ Len(commands[SelectedCategoryName]) = 2

\* C32: while the session reads keys at the command list, the selected
\* category is defined and is an index of the category list, and neither Down
\* nor Right pressed there fails.
C32_CommandHasCategory ==
    /\ [](pc = "loop" /\ mode = "Command" =>
            selected_category /= None /\ selected_category < Len(categories))
    /\ [][(command_down \/ command_right) => pc' = "loop"]_vars

\* C33: d at the category list in Normal input mode with an empty category
\* list does not fail and changes neither the store, the file, the snapshot
\* nor the session state.
C33_DeleteOnEmptyIsNoOp ==
    [][(category_d /\ categories = <<>>) =>
          /\ pc' = "loop"
          /\ UNCHANGED <<config, file, terminal, effects, appVars>>]_vars

\* C34: Enter at the command list in Normal input mode, the selected category
\* having no command, releases the terminal, runs nothing and ends the
\* session normally.
C34_EnterOnEmptyListEnds ==
    [][(/\ command_enter
        /\ CategoryIndexOk
        /\ commands[SelectedCategoryName] = <<>>) =>
          /\ terminal' = "released"
          /\ effects' = Append(effects, <<"release">>)
          /\ pc' = "done"]_vars

\* C35: whenever the input mode is Normal the buffer is empty, and a capture
\* that starts by entering Adding starts from an empty buffer.
C35_NormalBufferEmpty ==
    /\ [](input_mode = "Normal" => input = <<>>)
    /\ [][(input_mode /= "Adding" /\ input_mode' = "Adding") => input' = <<>>]_vars

\* A session that has committed a capture, and is capturing again
C35_Witness ==
    /\ pc = "loop" /\ inserts = 1 /\ input_mode = "Adding" /\ input = <<>>
    /\ config /= file \/ config \notin InitStores

----------------------------------------------------------------------------
(* Termination of the substitution loop *)

Count(ch, s) == Cardinality({i \in DOMAIN s : s[i] = ch})

NumPrompts == Cardinality({i \in DOMAIN effects : effects[i][1] = "prompt"})

\* No line entered so far holds a '<'
NoLtAnswers == \A i \in DOMAIN Reads : Count("<", Reads[i]) = 0

\* C36: as long as the lines entered hold no '<', a run has prompted at most
\* as many times as the stored text has '<' characters, it ends by spawning
\* the shell on a text without an opening marker or by reporting an opening
\* marker that is not closed, and it does end once every prompt is answered
\* (or the read fails).
C36_LoopTerminates ==
    /\ []((RunScanned /\ NoLtAnswers) =>
            /\ NumPrompts <= Count("<", StoredText)
            /\ pc = "done" =>
                  \/ /\ Last(effects)[1] = "spawn"
                     /\ find(Last(effects)[4], Open) = None
                  \/ /\ Last(effects)[1] = "mismatched"
                     /\ Unmatched(Last(effects)[4]))
    /\ (pc = "scan" /\ NoLtAnswers) ~> (pc \in {"done", "panicked"} \/ ~NoLtAnswers)
    /\ <>(pc /= "main")

C36_Witness ==
    /\ pc = "done" /\ RunScanned /\ NoLtAnswers
    /\ StoredText = TextToken \o TextToken
    /\ NumPrompts = 2 /\ Last(effects) = <<"spawn", NameA, AliasX, <<"d">> >>

====
